---- MODULE Spec2Model ----
(***************************************************************************)
(* joao: a chat-completion client with a tool-call loop.                   *)
(*                                                                         *)
(* The model follows src/joao/agent.py (Agent), src/joao/async_agent.py    *)
(* (AsyncAgent) and src/joao/tools.py (ToolsHandler, AsyncToolsHandler).   *)
(* One session is modelled: its history, its tool registry, and the        *)
(* position of the one handler that may be suspended on a remote call.     *)
(* The remote model is the environment: every create() call is answered    *)
(* by any response of Replies, or fails.                                   *)
(*                                                                         *)
(* Python strings that are concatenated, joined or tested for a prefix     *)
(* are sequences of tokens ("Error: " is one token); names, ids and        *)
(* argument strings, which the code only compares, are atoms.              *)
(***************************************************************************)
EXTENDS Integers, Sequences, FiniteSets, TLC

VARIABLES
    variant,          \* "sync": Agent + ToolsHandler; "async": AsyncAgent + AsyncToolsHandler
    system_prompt,    \* self.system_prompt
    messages,         \* self.messages
    tools,            \* tools_handler.tools
    tool_calls,       \* tools_handler.tool_calls (the pending calls)
    last_tool_calls,  \* tools_handler._last_tool_calls
    pc,               \* "idle", or the handler suspended in create(): "request" / "use_tools"
    call,             \* the arguments of the create() call in flight
    frame,            \* locals of the suspended handler and of its outermost caller
    ret,              \* how the last operation ended: its return value or its exception
    entry,            \* the session as it was when the current operation was called
    log,              \* the tool calls dispatched by the current operation, in order
    turns,            \* the remote responses received by the current operation, in order
    nremote,          \* create() calls made by the current operation
    nops,             \* operations called on this session
    ntotal,           \* create() calls made on this session
    gen,              \* the generator the last streaming request returned
    tasks             \* the request tasks of an event loop, each with its own position

vars == <<variant, system_prompt, messages, tools, tool_calls, last_tool_calls,
          pc, call, frame, ret, entry, log, turns, nremote, nops, ntotal, gen, tasks>>

----------------------------------------------------------------------------
(* Bounds of the model. *)

MaxSteps == 4     \* operations called on, and create() calls answered to, one session
MaxBatch == 2     \* tool calls in one model response
MaxParams == 3    \* declared parameters of a callable
MaxTasks == 2     \* request tasks running on one session

----------------------------------------------------------------------------
(* Python values. *)

\* None, among values that are token sequences (str) or sequences of names.
None == <<"<None>">>

\* A dict key that is not set / an attribute that does not exist.
Absent == "<absent>"

\* bool(v) is False: None, "" and [] are falsy.
Falsy(v) == v = None \/ v = <<>>

\* bool(calls) is False for a list of tool calls: None or [], both <<>> here.
NoCalls(calls) == Len(calls) = 0

\* a or b
Or(a, b) == IF Falsy(a) THEN b ELSE a

\* str(v) for v a str or None.
Str(v) == IF v = None THEN <<"None">> ELSE v

Whitespace == {" ", "\n"}

RECURSIVE lstrip(_)
lstrip(s) == IF s # <<>> /\ Head(s) \in Whitespace THEN lstrip(Tail(s)) ELSE s

RECURSIVE rstrip(_)
rstrip(s) ==
    IF s # <<>> /\ s[Len(s)] \in Whitespace THEN rstrip(SubSeq(s, 1, Len(s) - 1)) ELSE s

\* s.strip()
strip(s) == rstrip(lstrip(s))

\* What a call that may raise produced.
Value(v) == [raised |-> FALSE, value |-> v, err |-> <<>>]
Raised(e) == [raised |-> TRUE, value |-> None, err |-> e]

RECURSIVE JoinFrom(_, _, _)
JoinFrom(sep, items, i) ==
    IF i > Len(items) THEN <<>>
    ELSE IF i = Len(items) THEN items[i]
    ELSE items[i] \o <<sep>> \o JoinFrom(sep, items, i + 1)

\* sep.join(items): a TypeError when an item is not a str.
Join(sep, items) ==
    IF \E i \in 1..Len(items) : items[i] = None
    THEN Raised(<<"sequence item: expected str instance, NoneType found">>)
    ELSE Value(JoinFrom(sep, items, 1))

----------------------------------------------------------------------------
(* Tools: the callables an application may offer.  A tool is known by a    *)
(* key; two tools may carry the same __name__ (def lookup, async def       *)
(* lookup).                                                                *)

Tools == {"lookup", "boom", "async lookup", "async boom"}

\* tool.__name__
Name(tool) ==
    CASE tool = "async lookup" -> "lookup"
      [] tool = "async boom" -> "boom"
      [] OTHER -> tool

\* asyncio.iscoroutinefunction(tool)
IsCoroutineFunction(tool) == tool \in {"async lookup", "async boom"}

\* Parameter.empty: the default of a parameter that has none.
Empty == "<empty>"

\* A parameter of inspect.signature(callable).parameters.
Param(name, kind, default) == [name |-> name, kind |-> kind, default |-> default]

\* What create_tool_def reads of a callable: __name__, __doc__ and its signature.
Callable(name, doc, params) == [name |-> name, doc |-> doc, params |-> params]

\* The tools as callables: def lookup(x) and def boom(x), each with a docstring.
AsCallable(tool) ==
    Callable(Name(tool), <<"Test tool">>, <<Param("x", "POSITIONAL_OR_KEYWORD", Empty)>>)

GoodArgs == "{\"x\": \"a\"}"
BadArgs == "{\"x\": "

\* json.loads(arguments)
json_loads(arguments) ==
    IF arguments = GoodArgs THEN Value(<<"a">>)
    ELSE Raised(<<"Expecting value: line 1 column 7 (char 6)">>)

\* The body of the tool run with the decoded arguments: lookup(x) returns
\* "result-" + x, boom(x) raises.
Body(tool, args) ==
    IF Name(tool) = "lookup" THEN Value(<<"result-">> \o args)
    ELSE Raised(<<"kaboom">>)

\* A tool call of a model response: tool_call.id, tool_call.function.name,
\* tool_call.function.arguments.
ToolCall(id, name, arguments) == [id |-> id, name |-> name, arguments |-> arguments]

----------------------------------------------------------------------------
(* The registry and the dispatcher: ToolsHandler and AsyncToolsHandler.    *)
(* s is the session: a record of the variables the handlers read and       *)
(* write.                                                                  *)

\* set_tools(tools)
set_tools(s, t) == [s EXCEPT !.tools = t]

\* clear_tool_calls that also forgets the last calls.  A slip
\* C23_PendingFlag detects.
clear_tool_calls_all(s) == [s EXCEPT !.tool_calls = <<>>, !.last_tool_calls = <<>>]

\* clear_tool_calls() / clear_pending_calls()
clear_tool_calls(s) == [s EXCEPT !.tool_calls = <<>>]

\* set_tool_calls that forgets the calls it replaces.  A slip
\* C20_SetToolCalls detects.
set_tool_calls_forgetting(s, tc) == [s EXCEPT !.tool_calls = tc]

\* set_tool_calls(tool_calls); <<>> stands for None and for [], which
\* "tool_calls or []" makes the same.
set_tool_calls(s, tc) ==
    [s EXCEPT !.last_tool_calls = s.tool_calls, !.tool_calls = tc]

\* has_pending_calls()
has_pending_calls(s) == ~NoCalls(s.tool_calls)

\* get_last_tool_calls()
get_last_tool_calls(s) == s.last_tool_calls

\* get_pending_calls handing the calls out last first.  A slip C36_InOrder
\* detects.
get_pending_calls_reversed(s) ==
    [i \in 1..Len(s.tool_calls) |-> s.tool_calls[Len(s.tool_calls) + 1 - i]]

\* get_pending_calls()
get_pending_calls(s) == s.tool_calls

\* The loop of create_tool_def requiring every parameter, default or not.
\* A slip C24_Required detects.
RECURSIVE create_tool_def_loop_all_required(_, _, _, _)
create_tool_def_loop_all_required(params, i, properties, required) ==
    IF i > Len(params) THEN [properties |-> properties, required |-> required]
    ELSE LET param == params[i]
             param_def == [name |-> param.name, type |-> "string"]
         IN  IF param.kind \in {"VAR_POSITIONAL", "VAR_KEYWORD"}
             THEN create_tool_def_loop_all_required(params, i + 1, properties, required)
             ELSE create_tool_def_loop_all_required(
                    params, i + 1, Append(properties, param_def),
                    Append(required, param.name))

\* The loop of create_tool_def not skipping *args.  A slip C25_Properties
\* detects.
RECURSIVE create_tool_def_loop_with_args(_, _, _, _)
create_tool_def_loop_with_args(params, i, properties, required) ==
    IF i > Len(params) THEN [properties |-> properties, required |-> required]
    ELSE LET param == params[i]
             param_def == [name |-> param.name, type |-> "string"]
         IN  IF param.kind = "VAR_KEYWORD"
             THEN create_tool_def_loop_with_args(params, i + 1, properties, required)
             ELSE create_tool_def_loop_with_args(
                    params, i + 1, Append(properties, param_def),
                    IF param.default = Empty /\ param.kind # "VAR_POSITIONAL"
                    THEN Append(required, param.name)
                    ELSE required)

\* The loop of create_tool_def over sig.parameters, from parameter i on.
\* properties is the dict in insertion order.
RECURSIVE create_tool_def_loop(_, _, _, _)
create_tool_def_loop(params, i, properties, required) ==
    IF i > Len(params) THEN [properties |-> properties, required |-> required]
    ELSE LET param == params[i]
             param_def == [name |-> param.name, type |-> "string"]
         IN  IF param.kind = "VAR_POSITIONAL"
             THEN create_tool_def_loop(params, i + 1, properties, required)
             ELSE IF param.kind = "VAR_KEYWORD"
             THEN create_tool_def_loop(params, i + 1, properties, required)
             ELSE create_tool_def_loop(
                    params, i + 1, Append(properties, param_def),
                    IF param.default = Empty THEN Append(required, param.name)
                    ELSE required)

\* create_tool_def(callable).  keys are the keys of the "parameters" dict:
\* "required" is set only when the list is not empty.
create_tool_def(callable) ==
    LET r == create_tool_def_loop(callable.params, 1, <<>>, <<>>)
    IN  [type |-> "function",
         name |-> callable.name,
         description |-> Or(callable.doc, <<>>),
         parameters |->
            [type |-> "object",
             keys |-> {"type", "properties"} \cup
                      (IF r.required # <<>> THEN {"required"} ELSE {}),
             properties |-> r.properties,
             required |-> r.required]]

\* get_tools_definitions()
get_tools_definitions(s) ==
    IF Falsy(s.tools) THEN <<>>
    ELSE [i \in 1..Len(s.tools) |-> create_tool_def(AsCallable(s.tools[i]))]

\* check_last_request()
check_last_request(s) == get_last_tool_calls(s)

\* next((t for t in self.tools if t.__name__ == tool_name), None)
FindTool(tls, name) ==
    IF \E i \in 1..Len(tls) : Name(tls[i]) = name
    THEN tls[CHOOSE i \in 1..Len(tls) :
                /\ Name(tls[i]) = name
                /\ \A j \in 1..(i - 1) : Name(tls[j]) # name]
    ELSE Absent

\* What execute_tool_call did: its result or exception, and whether the
\* tool itself was run.
Executed(out, ran) ==
    [raised |-> out.raised, value |-> out.value, err |-> out.err, ran |-> ran]

\* execute_tool_call that lets the exception of the tool out.  A slip
\* C15_RaisingToolGoesOn detects.
sync_execute_tool_call_propagating(s, tool_call) ==
    IF Falsy(s.tools) THEN Executed(Value(None), FALSE)
    ELSE LET tool_args == json_loads(tool_call.arguments)
             tool == FindTool(s.tools, tool_call.name)
         IN  IF tool_args.raised THEN Executed(tool_args, FALSE)
             ELSE IF tool = Absent THEN Executed(Value(Str(None)), FALSE)
             ELSE IF IsCoroutineFunction(tool)
                  THEN Executed(Value(<<"<coroutine object ", Name(tool), ">">>), FALSE)
             ELSE LET response == Body(tool, tool_args.value)
                  IN  IF response.raised THEN Executed(response, TRUE)
                      ELSE Executed(Value(Str(response.value)), TRUE)

\* ToolsHandler.execute_tool_call(tool_call).  Calling a coroutine function
\* returns a coroutine object without running its body.
sync_execute_tool_call(s, tool_call) ==
    IF Falsy(s.tools) THEN Executed(Value(None), FALSE)
    ELSE LET tool_args == json_loads(tool_call.arguments)
             tool == FindTool(s.tools, tool_call.name)
         IN  IF tool_args.raised THEN Executed(tool_args, FALSE)
             ELSE IF tool = Absent THEN Executed(Value(Str(None)), FALSE)
             ELSE IF IsCoroutineFunction(tool)
                  THEN Executed(Value(<<"<coroutine object ", Name(tool), ">">>), FALSE)
             ELSE LET response == Body(tool, tool_args.value)
                  IN  IF response.raised THEN Executed(Value(Str(None)), TRUE)
                      ELSE Executed(Value(Str(response.value)), TRUE)

\* AsyncToolsHandler.execute_tool_call(tool_call).  Awaiting what a plain
\* function returned is a TypeError, raised inside the try.
async_execute_tool_call(s, tool_call) ==
    IF Falsy(s.tools) THEN Executed(Value(None), FALSE)
    ELSE LET tool_args == json_loads(tool_call.arguments)
             tool == FindTool(s.tools, tool_call.name)
         IN  IF tool_args.raised THEN Executed(tool_args, FALSE)
             ELSE IF tool = Absent THEN Executed(Value(Str(None)), FALSE)
             ELSE LET response == Body(tool, tool_args.value)
                  IN  IF response.raised \/ ~IsCoroutineFunction(tool)
                      THEN Executed(Value(Str(None)), TRUE)
                      ELSE Executed(Value(Str(response.value)), TRUE)

\* ToolsHandler.execute_tool_calls(), from pending call i on: the results
\* that are not None, joined by newlines.  The pending calls stay pending.
RECURSIVE sync_execute_tool_calls(_, _, _)
sync_execute_tool_calls(s, i, results) ==
    IF i > Len(s.tool_calls)
    THEN [s |-> s, raised |-> FALSE, err |-> <<>>,
          value |-> JoinFrom("\n", results, 1)]
    ELSE LET tool_call == s.tool_calls[i]
             r == sync_execute_tool_call(s, tool_call)
             s1 == [s EXCEPT !.log = Append(@, [call |-> tool_call, ran |-> r.ran])]
         IN  IF r.raised
             THEN [s |-> s1, raised |-> TRUE, err |-> r.err, value |-> None]
             ELSE sync_execute_tool_calls(
                    s1, i + 1,
                    IF r.value # None THEN Append(results, r.value) ELSE results)

----------------------------------------------------------------------------
(* Messages, remote calls and the ways an operation ends. *)

Message(role, content, tcs, id, name) ==
    [role |-> role, content |-> content, tool_calls |-> tcs,
     tool_call_id |-> id, name |-> name]

\* {"role": "system", "content": prompt}
SystemMessage(prompt) == Message("system", prompt, <<>>, Absent, Absent)

\* {"role": "user", "content": message}
UserMessage(message) == Message("user", message, <<>>, Absent, Absent)

\* response.choices[0].message, appended as it came
AnswerMessage(answer) ==
    Message("assistant", answer.content, answer.tool_calls, Absent, Absent)

\* The tools argument of create(): not passed, passed as None, passed as a list.
NotGiven == [given |-> FALSE, none |-> FALSE, value |-> <<>>]
GivenNone == [given |-> TRUE, none |-> TRUE, value |-> <<>>]
Given(defs) == [given |-> TRUE, none |-> FALSE, value |-> defs]

NoCall == [messages |-> <<>>, tools |-> NotGiven, stream |-> FALSE]

\* op, auto, stream: the operation the application called and its flags;
\* has_content, content: request's locals; tool_calls, responses: the locals of
\* the use_tools call that is running; before: the history when it was called.
NoFrame ==
    [op |-> "none", auto |-> FALSE, stream |-> FALSE, has_content |-> FALSE,
     content |-> None, tool_calls |-> <<>>, responses |-> <<>>, before |-> <<>>]

\* The handler calls client.chat.completions.create(...) and is suspended in it.
Create(s, where, msgs, tools_arg, stream) ==
    [s EXCEPT !.pc = where,
              !.call = [messages |-> msgs, tools |-> tools_arg, stream |-> stream],
              !.nremote = @ + 1]

\* The operation returns v / returns a token generator / raises e.
Return(s, v) ==
    [s EXCEPT !.pc = "idle", !.call = NoCall, !.frame = NoFrame,
              !.ret = [kind |-> "return", value |-> v]]

\* delta.content of a chunk that carries none.
NullContent == "<None>"

\* The generator _stream_response(response_stream): state is "none" (no
\* generator), "suspended" (not started, or at its yield), "finished" (it ran to
\* its end) or "closed" (the consumer closed or dropped it); chunks is the
\* response stream and i the chunk it reads next; content is
\* collected_message["content"]; yielded is what it has yielded so far.
NoGen ==
    [state |-> "none", chunks |-> <<>>, i |-> 1, content |-> <<>>, yielded |-> <<>>]

\* return self._stream_response(response): a generator that has not run yet.
\* A generator returned before and not run to its end is let go.
ReturnStream(s, chunks) ==
    [s EXCEPT !.pc = "idle", !.call = NoCall, !.frame = NoFrame,
              !.ret = [kind |-> "stream", value |-> chunks],
              !.gen = [NoGen EXCEPT !.state = "suspended", !.chunks = chunks]]

\* The generator yields v / ends (StopIteration, StopAsyncIteration).
Yield(s, v) ==
    [s EXCEPT !.pc = "idle", !.call = NoCall, !.frame = NoFrame,
              !.ret = [kind |-> "yield", value |-> <<v>>]]

Stop(s) ==
    [s EXCEPT !.pc = "idle", !.call = NoCall, !.frame = NoFrame,
              !.ret = [kind |-> "stop", value |-> None]]

Raise(s, e) ==
    [s EXCEPT !.pc = "idle", !.call = NoCall, !.frame = NoFrame,
              !.ret = [kind |-> "raise", value |-> e]]

\* A remote failure, and a remote answer.
Failure == [failed |-> TRUE, err |-> <<"Connection error.">>, content |-> None,
            tool_calls |-> <<>>, chunks |-> <<>>]

Answer(content, tcs) ==
    [failed |-> FALSE, err |-> <<>>, content |-> content, tool_calls |-> tcs,
     chunks |-> <<>>]

Chunks(chunks) ==
    [failed |-> FALSE, err |-> <<>>, content |-> None, tool_calls |-> <<>>,
     chunks |-> chunks]

----------------------------------------------------------------------------
(* Agent: the synchronous session. *)

\* Finish without request's try/except: an exception of use_tools escapes
\* request.  A slip C8_RemoteFailure detects.
Finish_uncaught(s, out) ==
    IF out.raised THEN Raise(s, out.err)
    ELSE IF s.frame.op = "request" /\ s.frame.has_content
         THEN Return(s, s.frame.content \o <<"\n", "\n">> \o Str(out.value))
         ELSE Return(s, out.value)

\* How use_tools, called by request or by the application, hands its result
\* back.  Inside request it runs in the try block: its value is returned,
\* after the first answer's text when that had any, and its exception
\* becomes an "Error: " string.
Finish(s, out) ==
    IF s.frame.op = "request"
    THEN IF out.raised THEN Return(s, <<"Error: ">> \o out.err)
         ELSE IF s.frame.has_content
              THEN Return(s, s.frame.content \o <<"\n", "\n">> \o Str(out.value))
              ELSE Return(s, out.value)
    ELSE IF out.raised THEN Raise(s, out.err) ELSE Return(s, out.value)

\* The loop of use_tools recording the tool message only, without the
\* assistant message before it.  A slip C5_AppendsPairs detects.
RECURSIVE agent_execute_pending_unpaired(_, _, _, _)
agent_execute_pending_unpaired(s, i, auto_update, responses) ==
    IF i > Len(get_pending_calls(s))
    THEN [s |-> s, raised |-> FALSE, err |-> <<>>, responses |-> responses]
    ELSE LET tool_call == get_pending_calls(s)[i]
             r == sync_execute_tool_call(s, tool_call)
             s1 == [s EXCEPT !.log = Append(@, [call |-> tool_call, ran |-> r.ran])]
         IN  IF r.raised
             THEN [s |-> s1, raised |-> TRUE, err |-> r.err, responses |-> responses]
             ELSE agent_execute_pending_unpaired(
                    IF auto_update
                    THEN [s1 EXCEPT !.messages = Append(@,
                            Message("tool", r.value, <<>>, tool_call.id, tool_call.name))]
                    ELSE s1,
                    i + 1, auto_update, Append(responses, r.value))

\* The loop of use_tools over the pending calls, from call i on.
RECURSIVE agent_execute_pending(_, _, _, _)
agent_execute_pending(s, i, auto_update, responses) ==
    IF i > Len(get_pending_calls(s))
    THEN [s |-> s, raised |-> FALSE, err |-> <<>>, responses |-> responses]
    ELSE LET tool_call == get_pending_calls(s)[i]
             r == sync_execute_tool_call(s, tool_call)
             s1 == [s EXCEPT !.log = Append(@, [call |-> tool_call, ran |-> r.ran])]
         IN  IF r.raised
             THEN [s |-> s1, raised |-> TRUE, err |-> r.err, responses |-> responses]
             ELSE agent_execute_pending(
                    IF auto_update
                    THEN [s1 EXCEPT !.messages = @ \o
                            << Message("assistant", <<>>, <<tool_call>>, Absent, Absent),
                               Message("tool", r.value, <<>>, tool_call.id, tool_call.name) >>]
                    ELSE s1,
                    i + 1, auto_update, Append(responses, r.value))

\* use_tools recording the calls in the history whatever auto_update says.
\* A slip C10_ManualUseTools detects.
agent_use_tools_always_records(s, auto_update) ==
    IF ~has_pending_calls(s) THEN Finish(s, Value(None))
    ELSE LET b == agent_execute_pending(s, 1, TRUE, <<>>)
         IN  IF b.raised THEN Finish(b.s, Raised(b.err))
             ELSE LET s1 == clear_tool_calls(b.s)
                  IN  IF auto_update
                      THEN Create([s1 EXCEPT !.frame.responses = b.responses,
                                             !.frame.tool_calls = get_pending_calls(s),
                                             !.frame.before = s.messages],
                                  "use_tools",
                                  <<SystemMessage(system_prompt)>> \o s1.messages,
                                  NotGiven, FALSE)
                      ELSE Finish(s1, Join("\n", b.responses))

\* Agent.use_tools(auto_update), up to its create() call or its return.
agent_use_tools(s, auto_update) ==
    IF ~has_pending_calls(s) THEN Finish(s, Value(None))
    ELSE LET b == agent_execute_pending(s, 1, auto_update, <<>>)
         IN  IF b.raised THEN Finish(b.s, Raised(b.err))
             ELSE LET s1 == clear_tool_calls(b.s)
                  IN  IF auto_update
                      THEN Create([s1 EXCEPT !.frame.responses = b.responses,
                                             !.frame.tool_calls = get_pending_calls(s),
                                             !.frame.before = s.messages],
                                  "use_tools",
                                  <<SystemMessage(system_prompt)>> \o s1.messages,
                                  NotGiven, FALSE)
                      ELSE Finish(s1, Join("\n", b.responses))

\* use_tools that does not call itself again when the follow-up answer asks
\* for tools.  A slip C3_Chain detects.
agent_use_tools_reply_once(s, reply) ==
    IF reply.failed THEN Finish(s, Raised(reply.err))
    ELSE LET s1 == [s EXCEPT !.messages =
                      Append(@, Message("assistant", Or(reply.content, <<>>),
                                        <<>>, Absent, Absent))]
         IN  IF ~NoCalls(reply.tool_calls)
             THEN Finish(set_tool_calls(s1, reply.tool_calls), Value(reply.content))
             ELSE IF ~Falsy(reply.content) THEN Finish(s1, Value(reply.content))
             ELSE Finish(s1, Join("\n", s.frame.responses))

\* Agent.use_tools, from the answer of its create() call on.
agent_use_tools_reply(s, reply) ==
    IF reply.failed THEN Finish(s, Raised(reply.err))
    ELSE LET s1 == [s EXCEPT !.messages =
                      Append(@, Message("assistant", Or(reply.content, <<>>),
                                        <<>>, Absent, Absent))]
         IN  IF ~NoCalls(reply.tool_calls)
             THEN agent_use_tools(set_tool_calls(s1, reply.tool_calls), TRUE)
             ELSE IF ~Falsy(reply.content) THEN Finish(s1, Value(reply.content))
             ELSE Finish(s1, Join("\n", s.frame.responses))

\* Agent.request(message, tools, auto_use_tools, stream), up to its create() call.
agent_request(s, message, t, auto_use_tools, stream) ==
    LET s1 == set_tools(s, t)
        tools_definitions == get_tools_definitions(s1)
        s2 == [s1 EXCEPT !.messages = Append(@, UserMessage(message)),
                         !.frame = [NoFrame EXCEPT !.op = "request",
                                                   !.auto = auto_use_tools,
                                                   !.stream = stream]]
    IN  Create(s2, "request", s2.messages,
               IF ~Falsy(t) THEN Given(tools_definitions) ELSE GivenNone, stream)

\* request that runs the tools whatever auto_use_tools says.  A slip
\* C7_LeavesPending detects.
agent_request_reply_always_auto(s, reply) ==
    IF reply.failed THEN Return(s, <<"Error: ">> \o reply.err)
    ELSE IF s.frame.stream THEN ReturnStream(s, reply.chunks)
    ELSE LET s1 == [s EXCEPT !.messages = Append(@, AnswerMessage(reply))]
             has_content == reply.content # None /\ strip(reply.content) # <<>>
         IN  IF ~NoCalls(reply.tool_calls)
             THEN agent_use_tools(
                    [set_tool_calls(s1, reply.tool_calls) EXCEPT
                       !.frame.has_content = has_content,
                       !.frame.content = reply.content], TRUE)
             ELSE Return(s1, reply.content)

\* Agent.request, from the answer of its create() call on.
agent_request_reply(s, reply) ==
    IF reply.failed THEN Return(s, <<"Error: ">> \o reply.err)
    ELSE IF s.frame.stream THEN ReturnStream(s, reply.chunks)
    ELSE LET s1 == [s EXCEPT !.messages = Append(@, AnswerMessage(reply))]
             has_content == reply.content # None /\ strip(reply.content) # <<>>
             has_tool_calls == ~NoCalls(reply.tool_calls)
         IN  IF has_tool_calls
             THEN LET s2 == set_tool_calls(s1, reply.tool_calls)
                  IN  IF s.frame.auto
                      THEN agent_use_tools(
                             [s2 EXCEPT !.frame.has_content = has_content,
                                        !.frame.content = reply.content], TRUE)
                      ELSE Return(s2, reply.content)
             ELSE Return(s1, reply.content)

\* The first chunk from i on whose delta.content is not None; 0 when there is
\* none.
RECURSIVE NextContent(_, _)
NextContent(chunks, i) ==
    IF i > Len(chunks) THEN 0
    ELSE IF chunks[i] # NullContent THEN i
    ELSE NextContent(chunks, i + 1)

\* _stream_response recording each fragment in the history as it yields it.
\* A slip C34_Streaming detects.
agent_stream_response_recording(s) ==
    LET j == NextContent(s.gen.chunks, s.gen.i)
    IN  IF j = 0
        THEN Stop([s EXCEPT !.gen.state = "finished",
                            !.gen.i = Len(s.gen.chunks) + 1])
        ELSE Yield([s EXCEPT !.gen.i = j + 1,
                             !.gen.yielded = Append(@, s.gen.chunks[j]),
                             !.messages = Append(@,
                                Message("assistant", <<s.gen.chunks[j]>>, <<>>,
                                        Absent, Absent))],
                   s.gen.chunks[j])

\* Agent._stream_response, resumed by next(): it runs to its next yield or to
\* its end.
agent_stream_response(s) ==
    LET j == NextContent(s.gen.chunks, s.gen.i)
    IN  IF j = 0
        THEN Stop([s EXCEPT !.gen.state = "finished",
                            !.gen.i = Len(s.gen.chunks) + 1])
        ELSE Yield([s EXCEPT !.gen.i = j + 1,
                             !.gen.yielded = Append(@, s.gen.chunks[j])],
                   s.gen.chunks[j])

\* Agent.prepare_call(tool_call): the first active tool of that name, or None.
\* The callable it returns is given as <<tool>>, among values that may be None.
prepare_call(s, tool_call) ==
    IF Falsy(s.tools) THEN None
    ELSE LET tool == FindTool(s.tools, tool_call.name)
         IN  IF tool = Absent THEN None ELSE <<tool>>

\* tool_exec putting its result in the place of the last message.  A slip
\* C33_AppendOnly detects.
tool_exec_replacing(s) ==
    IF ~has_pending_calls(s) THEN Return(s, None)
    ELSE LET tool_call == s.tool_calls[1]
             args == json_loads(tool_call.arguments)
         IN  IF args.raised THEN Raise(s, args.err)
             ELSE IF Falsy(s.tools) THEN Raise(s, <<"list index out of range">>)
             ELSE LET result == Body(s.tools[1], args.value)
                  IN  IF result.raised THEN Raise(s, result.err)
                      ELSE Return([s EXCEPT !.messages =
                                     Append(SubSeq(@, 1, Len(@) - 1),
                                            Message("assistant", Str(result.value), <<>>,
                                                    Absent, Absent))],
                                  result.value)

\* Agent.tool_exec(): the first pending call, run by the first active tool.
\* Nothing is caught: json.loads, tools[0] and the tool may raise.
tool_exec(s) ==
    IF ~has_pending_calls(s) THEN Return(s, None)
    ELSE LET tool_call == s.tool_calls[1]
             args == json_loads(tool_call.arguments)
         IN  IF args.raised THEN Raise(s, args.err)
             ELSE IF s.tools = None
                  THEN Raise(s, <<"'NoneType' object is not subscriptable">>)
             ELSE IF s.tools = <<>> THEN Raise(s, <<"list index out of range">>)
             ELSE LET tool == s.tools[1]
                      s1 == [s EXCEPT !.log = Append(@,
                               [call |-> tool_call, tool |-> tool,
                                ran |-> ~IsCoroutineFunction(tool)])]
                      result == IF IsCoroutineFunction(tool)
                                THEN Value(<<"<coroutine object ", Name(tool), ">">>)
                                ELSE Body(tool, args.value)
                  IN  IF result.raised THEN Raise(s1, result.err)
                      ELSE Return([s1 EXCEPT !.messages = Append(@,
                                     Message("assistant", Str(result.value), <<>>,
                                             Absent, Absent))],
                                  result.value)

----------------------------------------------------------------------------
(* AsyncAgent: the asynchronous session. *)

\* _stream_response appending what it has collected at every fragment.  A
\* slip C35_RecordedOnCompletion detects.
async_stream_response_incremental(s) ==
    LET j == NextContent(s.gen.chunks, s.gen.i)
    IN  IF j = 0
        THEN Stop([s EXCEPT !.gen.state = "finished",
                            !.gen.i = Len(s.gen.chunks) + 1])
        ELSE Yield([s EXCEPT !.gen.i = j + 1,
                             !.gen.content = @ \o <<s.gen.chunks[j]>>,
                             !.gen.yielded = Append(@, s.gen.chunks[j]),
                             !.messages = Append(@,
                                Message("assistant", s.gen.content \o <<s.gen.chunks[j]>>,
                                        <<>>, Absent, Absent))],
                   s.gen.chunks[j])

\* AsyncAgent._stream_response, resumed by anext(): it runs to its next yield,
\* or to its end, where it appends the collected message.
async_stream_response(s) ==
    LET j == NextContent(s.gen.chunks, s.gen.i)
    IN  IF j = 0
        THEN Stop([s EXCEPT !.messages = Append(@,
                              Message("assistant", s.gen.content, <<>>, Absent, Absent)),
                            !.gen.state = "finished",
                            !.gen.i = Len(s.gen.chunks) + 1])
        ELSE Yield([s EXCEPT !.gen.i = j + 1,
                             !.gen.content = @ \o <<s.gen.chunks[j]>>,
                             !.gen.yielded = Append(@, s.gen.chunks[j])],
                   s.gen.chunks[j])

\* AsyncToolsHandler.execute_tool_calls(), from pending call i on.
RECURSIVE async_execute_tool_calls(_, _, _)
async_execute_tool_calls(s, i, results) ==
    IF i > Len(s.tool_calls)
    THEN [s |-> s, raised |-> FALSE, err |-> <<>>,
          value |-> Join("\n", results).value]
    ELSE LET tool_call == s.tool_calls[i]
             r == async_execute_tool_call(s, tool_call)
             s1 == [s EXCEPT !.log = Append(@, [call |-> tool_call, ran |-> r.ran])]
         IN  IF r.raised
             THEN [s |-> s1, raised |-> TRUE, err |-> r.err, value |-> None]
             ELSE async_execute_tool_calls(
                    s1, i + 1,
                    IF r.value # None THEN Append(results, r.value) ELSE results)

\* use_tools that does not look for pending calls first.  A slip
\* C11_NoPendingNoOp detects.
async_use_tools_unguarded(s, autoupdate) ==
    LET b == async_execute_tool_calls(s, 1, <<>>)
        last == get_last_tool_calls(b.s)
    IN  IF b.raised THEN Return(b.s, None)
        ELSE IF ~autoupdate THEN Return(b.s, None)
        ELSE IF NoCalls(last) THEN Return(b.s, None)
        ELSE LET s1 == [b.s EXCEPT !.messages = @ \o
                          << Message("assistant", None, last, Absent, Absent),
                             Message("tool", b.value, <<>>, last[1].id, Absent) >>]
             IN  Create([s1 EXCEPT !.frame.responses = <<b.value>>,
                                        !.frame.tool_calls = get_pending_calls(s),
                                        !.frame.before = s.messages],
                        "use_tools", s1.messages, NotGiven, FALSE)

\* use_tools that records the results in the history when autoupdate is
\* off.  A slip C29_AsyncManualUseTools detects.
async_use_tools_recording(s, autoupdate) ==
    IF ~has_pending_calls(s) THEN Return(s, None)
    ELSE LET b == async_execute_tool_calls(s, 1, <<>>)
             last == get_last_tool_calls(b.s)
         IN  IF b.raised THEN Return(b.s, None)
             ELSE IF ~autoupdate
                  THEN Return([b.s EXCEPT !.messages = Append(@,
                                  Message("tool", b.value, <<>>, s.tool_calls[1].id, Absent))],
                              None)
             ELSE IF NoCalls(last) THEN Return(b.s, None)
             ELSE LET s1 == [b.s EXCEPT !.messages = @ \o
                               << Message("assistant", None, last, Absent, Absent),
                                  Message("tool", b.value, <<>>, last[1].id, Absent) >>]
                  IN  Create([s1 EXCEPT !.frame.responses = <<b.value>>,
                                             !.frame.tool_calls = get_pending_calls(s),
                                             !.frame.before = s.messages],
                             "use_tools", s1.messages, NotGiven, FALSE)

\* AsyncAgent.use_tools(autoupdate), up to its create() call or its return.
async_use_tools(s, autoupdate) ==
    IF ~has_pending_calls(s) THEN Return(s, None)
    ELSE LET b == async_execute_tool_calls(s, 1, <<>>)
             last == get_last_tool_calls(b.s)
         IN  IF b.raised THEN Return(b.s, None)
             ELSE IF ~autoupdate THEN Return(b.s, None)
             ELSE IF NoCalls(last) THEN Return(b.s, None)
             ELSE LET s1 == [b.s EXCEPT !.messages = @ \o
                               << Message("assistant", None, last, Absent, Absent),
                                  Message("tool", b.value, <<>>, last[1].id, Absent) >>]
                  IN  Create([s1 EXCEPT !.frame.responses = <<b.value>>,
                                             !.frame.tool_calls = get_pending_calls(s),
                                             !.frame.before = s.messages],
                             "use_tools", s1.messages, NotGiven, FALSE)

\* AsyncAgent.use_tools, from the answer of its create() call on.
async_use_tools_reply(s, reply) ==
    IF reply.failed THEN Return(s, None)
    ELSE Return([s EXCEPT !.messages = Append(@, AnswerMessage(reply))],
                reply.content)

\* request appending the user message twice.  A slip C37_OneAtATime detects.
async_request_repeating(s, message, t, use_tools, stream) ==
    LET s1 == [s EXCEPT !.messages = @ \o <<UserMessage(message), UserMessage(message)>>,
                        !.frame = [NoFrame EXCEPT !.op = "request",
                                                  !.auto = use_tools,
                                                  !.stream = stream]]
        s2 == IF ~Falsy(t) THEN set_tools(s1, t) ELSE s1
    IN  Create(s2, "request", s2.messages,
               IF ~Falsy(t) THEN Given(get_tools_definitions(s2)) ELSE NotGiven, stream)

\* AsyncAgent.request(message, tools, use_tools, stream), up to its create() call.
async_request(s, message, t, use_tools, stream) ==
    LET s1 == [s EXCEPT !.messages = Append(@, UserMessage(message)),
                        !.frame = [NoFrame EXCEPT !.op = "request",
                                                  !.auto = use_tools,
                                                  !.stream = stream]]
        s2 == IF ~Falsy(t) THEN set_tools(s1, t) ELSE s1
    IN  Create(s2, "request", s2.messages,
               IF ~Falsy(t) THEN Given(get_tools_definitions(s2)) ELSE NotGiven, stream)

\* AsyncAgent.request that does not record the answer in the history.  A
\* slip C6_PlainAnswer detects.
async_request_reply_unrecorded(s, reply) ==
    IF reply.failed THEN Raise(s, reply.err)
    ELSE IF s.frame.stream THEN ReturnStream(s, reply.chunks)
    ELSE LET s2 == set_tool_calls(s, reply.tool_calls)
         IN  IF s.frame.auto /\ ~NoCalls(reply.tool_calls)
             THEN async_use_tools(s2, TRUE)
             ELSE Return(s2, reply.content)

\* AsyncAgent.request, from the answer of its create() call on.
async_request_reply(s, reply) ==
    IF reply.failed THEN Raise(s, reply.err)
    ELSE IF s.frame.stream THEN ReturnStream(s, reply.chunks)
    ELSE LET s1 == [s EXCEPT !.messages = Append(@, AnswerMessage(reply))]
             s2 == set_tool_calls(s1, reply.tool_calls)
         IN  IF s.frame.auto /\ ~NoCalls(reply.tool_calls)
             THEN async_use_tools(s2, TRUE)
             ELSE Return(s2, reply.content)

----------------------------------------------------------------------------
(* The inputs: what the application passes and what the remote answers. *)

Prompts == {None, <<"You are a helpful assistant.">>}

Texts == {<<"hello">>}

\* The tool lists an application passes to request.
ToolLists ==
    IF variant = "sync"
    THEN {None, <<"lookup">>, <<"lookup", "boom">>}
    ELSE {None, <<"async lookup">>, <<"async lookup", "async boom">>}

\* The content of an answer.
Contents == {None, <<" ">>, <<"done">>}

\* What a model may ask for, each a tool by name with an arguments string:
\* a tool that raises, a tool that answers, and arguments that are no JSON.
Asks == << <<"boom", GoodArgs>>, <<"lookup", GoodArgs>>, <<"lookup", BadArgs>> >>

CallIds == <<"call_1", "call_2", "call_3", "call_4">>

\* The strictly increasing index sequences of length n into 1..m.
RECURSIVE Increasing(_, _)
Increasing(n, m) ==
    IF n = 0 THEN {<<>>}
    ELSE IF m < n THEN {}
    ELSE Increasing(n, m - 1) \cup {Append(p, m) : p \in Increasing(n - 1, m - 1)}

\* The tool calls of an answer: up to MaxBatch of the asks, in their order,
\* ids by position.  <<>> is an answer without tool calls.
Batches ==
    UNION {{[i \in 1..n |-> ToolCall(CallIds[i], Asks[p[i]][1], Asks[p[i]][2])] :
              p \in Increasing(n, Len(Asks))} : n \in 0..MaxBatch}

Answers == {Answer(c, tcs) : c \in Contents, tcs \in Batches}

\* The fragments of a streamed answer: delta.content, None in some chunks.
Streams == {<<>>, <<"to", "<None>", "ken">>}

Replies(stream) ==
    {Failure} \cup (IF stream THEN {Chunks(c) : c \in Streams} ELSE Answers)

\* The tool lists an application hands to the handler's set_tools: none, and
\* a tool of either calling convention.
HandlerToolLists == {<<>>, <<"lookup">>, <<"async lookup">>}

\* The argument of set_tool_calls: None, or a list of tool calls.
NoneCalls == [none |-> TRUE, calls |-> <<>>]
SomeCalls(calls) == [none |-> FALSE, calls |-> calls]
CallLists == {NoneCalls} \cup {SomeCalls(b) : b \in Batches}

\* tool_calls or []
OrEmpty(c) == IF c.none \/ c.calls = <<>> THEN <<>> ELSE c.calls

\* No callable: the operation took none.
NoCallable == Callable("", None, <<>>)

\* The request tasks of one event loop.
Tasks == 1..MaxTasks

\* What the tasks send.
TaskTexts == {<<"hello">>, <<"and you?">>}

\* What the remote answers a task: a failure, or an answer with or without
\* text and with or without a call to lookup.
TaskReplies ==
    {Failure} \cup
    {Answer(c, tcs) : c \in {None, <<"done">>},
                      tcs \in {<<>>, <<ToolCall("call_1", "lookup", GoodArgs)>>}}

\* A task that has not run: its position, and the request it was made for.
NoTask ==
    [pc |-> "idle", call |-> NoCall, frame |-> NoFrame,
     ret |-> [kind |-> "none", value |-> None],
     log |-> <<>>, turns |-> <<>>, nremote |-> 0,
     message |-> None, before |-> <<>>, alone |-> TRUE]

ParamNames == <<"a", "b", "c", "d">>

\* The kinds of a parameter, in the order a signature declares them.
Kinds == <<"POSITIONAL_OR_KEYWORD", "VAR_POSITIONAL", "KEYWORD_ONLY", "VAR_KEYWORD">>

KindRank(kind) == CHOOSE k \in 1..Len(Kinds) : Kinds[k] = kind

Variadic == {"VAR_POSITIONAL", "VAR_KEYWORD"}

Defaults == {Empty, "default"}

\* What Python accepts as a parameter list: kinds in declaration order, one
\* *args and one **kwargs at most, these without default, and no positional
\* parameter without default after one with a default.
ValidSignature(params) ==
    /\ \A i \in 1..Len(params) :
          /\ params[i].name = ParamNames[i]
          /\ params[i].kind \in Variadic => params[i].default = Empty
    /\ \A i, j \in 1..Len(params) :
          i < j =>
            /\ KindRank(params[i].kind) <= KindRank(params[j].kind)
            /\ params[i].kind \in Variadic => params[i].kind # params[j].kind
            /\ (/\ params[i].kind = "POSITIONAL_OR_KEYWORD"
                /\ params[j].kind = "POSITIONAL_OR_KEYWORD"
                /\ params[i].default # Empty) => params[j].default # Empty

\* The parameter lists of up to MaxParams parameters.
Signatures ==
    UNION {{ps \in [1..n -> [name : {ParamNames[i] : i \in 1..MaxParams},
                              kind : {Kinds[k] : k \in 1..Len(Kinds)},
                              default : Defaults]] :
               ValidSignature(ps)} : n \in 0..MaxParams}

\* The callables an application hands to create_tool_def: with and without
\* docstring.
Callables ==
    {Callable("tool", doc, ps) : doc \in {None, <<"Test tool description">>},
                                 ps \in Signatures}

----------------------------------------------------------------------------
(* The state machine. *)

\* The session as the handlers see it.
Session ==
    [messages |-> messages, tools |-> tools, tool_calls |-> tool_calls,
     last_tool_calls |-> last_tool_calls, pc |-> pc, call |-> call,
     frame |-> frame, ret |-> ret, log |-> log, turns |-> turns,
     nremote |-> nremote, gen |-> gen]

\* The session at the call of an operation: nothing done yet.
Called(op, args) ==
    [Session EXCEPT !.log = <<>>, !.turns = <<>>, !.nremote = 0,
                    !.ret = [kind |-> "none", value |-> None]]

Becomes(s) ==
    /\ messages' = s.messages
    /\ tools' = s.tools
    /\ tool_calls' = s.tool_calls
    /\ last_tool_calls' = s.last_tool_calls
    /\ pc' = s.pc
    /\ call' = s.call
    /\ frame' = s.frame
    /\ ret' = s.ret
    /\ log' = s.log
    /\ turns' = s.turns
    /\ nremote' = s.nremote
    /\ gen' = s.gen

\* __init__ recording the system message whether a prompt is given or not.
\* A slip C28_NewSession detects.
Init_always_prompt ==
    /\ variant \in {"sync", "async"}
    /\ system_prompt \in Prompts
    /\ messages = <<SystemMessage(system_prompt)>>
    /\ tools = None
    /\ tool_calls = <<>>
    /\ last_tool_calls = <<>>
    /\ pc = "idle"
    /\ call = NoCall
    /\ frame = NoFrame
    /\ ret = [kind |-> "none", value |-> None]
    /\ entry = [op |-> "init", message |-> None, auto |-> FALSE, stream |-> FALSE,
                tools |-> None, messages |-> <<>>, tool_calls |-> <<>>, last_tool_calls |-> <<>>,
                active |-> None, calls |-> NoneCalls, callable |-> NoCallable]
    /\ log = <<>>
    /\ turns = <<>>
    /\ nremote = 0
    /\ nops = 0
    /\ ntotal = 0
    /\ gen = NoGen
    /\ tasks = [t \in Tasks |-> NoTask]

\* __init__(system_prompt)
Init ==
    /\ variant \in {"sync", "async"}
    /\ system_prompt \in Prompts
    /\ messages = IF ~Falsy(system_prompt) THEN <<SystemMessage(system_prompt)>> ELSE <<>>
    /\ tools = None
    /\ tool_calls = <<>>
    /\ last_tool_calls = <<>>
    /\ pc = "idle"
    /\ call = NoCall
    /\ frame = NoFrame
    /\ ret = [kind |-> "none", value |-> None]
    /\ entry = [op |-> "init", message |-> None, auto |-> FALSE, stream |-> FALSE,
                tools |-> None, messages |-> <<>>, tool_calls |-> <<>>, last_tool_calls |-> <<>>,
                active |-> None, calls |-> NoneCalls, callable |-> NoCallable]
    /\ log = <<>>
    /\ turns = <<>>
    /\ nremote = 0
    /\ nops = 0
    /\ ntotal = 0
    /\ gen = NoGen
    /\ tasks = [t \in Tasks |-> NoTask]

\* What an operation was called with and on.
Entry(op, message, auto, stream, t) ==
    [op |-> op, message |-> message, auto |-> auto, stream |-> stream, tools |-> t,
     messages |-> messages, tool_calls |-> tool_calls,
     last_tool_calls |-> last_tool_calls, active |-> tools, calls |-> NoneCalls,
     callable |-> NoCallable]

\* The steps taken on this session.
Steps == nops + ntotal

\* A handler suspended in create() when no further call is answered is cut.
Answerable(s, n) == s.pc = "idle" \/ n < MaxSteps

\* The application calls request(message, tools, auto_use_tools / use_tools, stream).
Request(message, t, auto, stream) ==
    /\ pc = "idle"
    /\ Steps + 1 < MaxSteps
    /\ Becomes(IF variant = "sync"
               THEN agent_request(Called("request", auto), message, t, auto, stream)
               ELSE async_request(Called("request", auto), message, t, auto, stream))
    /\ entry' = Entry("request", message, auto, stream, t)
    /\ nops' = nops + 1
    /\ UNCHANGED <<variant, system_prompt, ntotal, tasks>>

\* The application calls use_tools(auto_update / autoupdate).
UseTools(auto) ==
    /\ pc = "idle"
    /\ Steps < MaxSteps
    /\ LET s == IF variant = "sync"
                THEN agent_use_tools(
                       [Called("use_tools", auto) EXCEPT
                          !.frame = [NoFrame EXCEPT !.op = "use_tools", !.auto = auto]],
                       auto)
                ELSE async_use_tools(
                       [Called("use_tools", auto) EXCEPT
                          !.frame = [NoFrame EXCEPT !.op = "use_tools", !.auto = auto]],
                       auto)
       IN  /\ Answerable(s, Steps + 1)
           /\ Becomes(s)
    /\ entry' = Entry("use_tools", None, auto, FALSE, tools)
    /\ nops' = nops + 1
    /\ UNCHANGED <<variant, system_prompt, ntotal, tasks>>

\* The remote answers the create() call in flight, or fails, and the
\* suspended handler runs on to its next create() call or to its end.
Reply(reply) ==
    /\ pc \in {"request", "use_tools"}
    /\ Steps < MaxSteps
    /\ LET s0 == [Session EXCEPT !.turns = Append(@, reply)]
           s == CASE variant = "sync" /\ pc = "request" -> agent_request_reply(s0, reply)
                  [] variant = "sync" /\ pc = "use_tools" -> agent_use_tools_reply(s0, reply)
                  [] variant = "async" /\ pc = "request" -> async_request_reply(s0, reply)
                  [] variant = "async" /\ pc = "use_tools" -> async_use_tools_reply(s0, reply)
       IN  /\ Answerable(s, Steps + 1)
           /\ Becomes(s)
    /\ ntotal' = ntotal + 1
    /\ UNCHANGED <<variant, system_prompt, entry, nops, tasks>>

\* The application calls tools_handler.set_tools(t).
SetTools(t) ==
    /\ pc = "idle"
    /\ Steps < MaxSteps
    /\ Becomes(Return(set_tools(Called("set_tools", t), t), None))
    /\ entry' = Entry("set_tools", None, FALSE, FALSE, t)
    /\ nops' = nops + 1
    /\ UNCHANGED <<variant, system_prompt, ntotal, tasks>>

\* The application calls tools_handler.set_tool_calls(c).
SetToolCalls(c) ==
    /\ pc = "idle"
    /\ Steps < MaxSteps
    /\ Becomes(Return(set_tool_calls(Called("set_tool_calls", c), OrEmpty(c)), None))
    /\ entry' = [Entry("set_tool_calls", None, FALSE, FALSE, tools) EXCEPT !.calls = c]
    /\ nops' = nops + 1
    /\ UNCHANGED <<variant, system_prompt, ntotal, tasks>>

\* The application calls tools_handler.execute_tool_calls().
ExecuteToolCalls ==
    /\ pc = "idle"
    /\ Steps < MaxSteps
    /\ LET s == Called("execute_tool_calls", None)
           b == IF variant = "sync" THEN sync_execute_tool_calls(s, 1, <<>>)
                ELSE async_execute_tool_calls(s, 1, <<>>)
       IN  Becomes(IF ~has_pending_calls(s) THEN Return(s, None)
                   ELSE IF b.raised THEN Raise(b.s, b.err)
                   ELSE Return(b.s, b.value))
    /\ entry' = Entry("execute_tool_calls", None, FALSE, FALSE, tools)
    /\ nops' = nops + 1
    /\ UNCHANGED <<variant, system_prompt, ntotal, tasks>>

\* The application calls tools_handler.clear_tool_calls() / clear_pending_calls().
ClearToolCalls ==
    /\ pc = "idle"
    /\ Steps < MaxSteps
    /\ Becomes(Return(clear_tool_calls(Called("clear_tool_calls", None)), None))
    /\ entry' = Entry("clear_tool_calls", None, FALSE, FALSE, tools)
    /\ nops' = nops + 1
    /\ UNCHANGED <<variant, system_prompt, ntotal, tasks>>

\* The application calls tools_handler.create_tool_def(callable).
CreateToolDef(callable) ==
    /\ pc = "idle"
    /\ Steps < MaxSteps
    /\ Becomes(Return(Called("create_tool_def", callable), create_tool_def(callable)))
    /\ entry' = [Entry("create_tool_def", None, FALSE, FALSE, tools) EXCEPT
                   !.callable = callable]
    /\ nops' = nops + 1
    /\ UNCHANGED <<variant, system_prompt, ntotal, tasks>>

\* The application pulls the next fragment of the stream it was returned:
\* next(generator) / anext(generator).  The fragments bound these steps.
NextFragment ==
    /\ pc = "idle"
    /\ gen.state = "suspended"
    /\ Becomes(IF variant = "sync"
               THEN agent_stream_response(Called("next", None))
               ELSE async_stream_response(Called("next", None)))
    /\ entry' = Entry("next", None, FALSE, TRUE, tools)
    /\ UNCHANGED <<variant, system_prompt, nops, ntotal, tasks>>

\* The application stops consuming: generator.close() / aclose(), or the
\* generator is dropped.  Nothing after the yield runs.
CloseStream ==
    /\ pc = "idle"
    /\ gen.state = "suspended"
    /\ Becomes(Return([Called("close", None) EXCEPT !.gen.state = "closed"], None))
    /\ entry' = Entry("close", None, FALSE, TRUE, tools)
    /\ UNCHANGED <<variant, system_prompt, nops, ntotal, tasks>>

\* The application calls prepare_call(tool_call) with the k-th pending call,
\* as the loop of the web_search sample does.
PrepareCall(k) ==
    /\ variant = "sync"
    /\ pc = "idle"
    /\ Steps < MaxSteps
    /\ k \in 1..Len(tool_calls)
    /\ LET s == Called("prepare_call", tool_calls[k])
       IN  Becomes(Return(s, prepare_call(s, tool_calls[k])))
    /\ entry' = [Entry("prepare_call", None, FALSE, FALSE, tools) EXCEPT
                   !.calls = SomeCalls(<<tool_calls[k]>>)]
    /\ nops' = nops + 1
    /\ UNCHANGED <<variant, system_prompt, ntotal, tasks>>

\* The application calls tool_exec().  entry.calls is the call it passed to
\* prepare_call just before, when that returned a tool.
ToolExec ==
    /\ variant = "sync"
    /\ pc = "idle"
    /\ Steps < MaxSteps
    /\ Becomes(tool_exec(Called("tool_exec", None)))
    /\ entry' = [Entry("tool_exec", None, FALSE, FALSE, tools) EXCEPT
                   !.calls = IF entry.op = "prepare_call" /\ ret.value # None
                             THEN entry.calls ELSE NoneCalls]
    /\ nops' = nops + 1
    /\ UNCHANGED <<variant, system_prompt, ntotal, tasks>>

Next ==
    \/ \E m \in Texts, t \in ToolLists, auto \in BOOLEAN, stream \in BOOLEAN :
         Request(m, t, auto, stream)
    \/ \E auto \in BOOLEAN : UseTools(auto)
    \/ \E stream \in BOOLEAN : \E reply \in Replies(stream) :
         call.stream = stream /\ Reply(reply)
    \/ \E t \in HandlerToolLists : SetTools(t)
    \/ \E c \in CallLists : SetToolCalls(c)
    \/ ExecuteToolCalls
    \/ ClearToolCalls

Spec == Init /\ [][Next]_vars

\* The schema builder alone: create_tool_def applied to the callables.
SchemaNext == \E callable \in Callables : CreateToolDef(callable)

SchemaSpec == Init /\ [][SchemaNext]_vars

\* The operations of Agent and AsyncAgent, with the manual tool flow and the
\* consumption of a returned stream.
SessionNext ==
    \/ \E m \in Texts, t \in ToolLists, auto \in BOOLEAN, stream \in BOOLEAN :
         Request(m, t, auto, stream)
    \/ \E auto \in BOOLEAN : UseTools(auto)
    \/ \E stream \in BOOLEAN : \E reply \in Replies(stream) :
         call.stream = stream /\ Reply(reply)
    \/ \E k \in 1..MaxBatch : PrepareCall(k)
    \/ ToolExec
    \/ NextFragment
    \/ CloseStream

SessionSpec == Init /\ [][SessionNext]_vars

\* The session as task t sees it: the session's fields are shared, the
\* position is the task's own.
TaskSession(t) ==
    [messages |-> messages, tools |-> tools, tool_calls |-> tool_calls,
     last_tool_calls |-> last_tool_calls, pc |-> tasks[t].pc, call |-> tasks[t].call,
     frame |-> tasks[t].frame, ret |-> tasks[t].ret, log |-> tasks[t].log,
     turns |-> tasks[t].turns, nremote |-> tasks[t].nremote, gen |-> gen]

\* Task t has run up to s; the other tasks are where they were.
TaskBecomes(t, s, others) ==
    /\ messages' = s.messages
    /\ tools' = s.tools
    /\ tool_calls' = s.tool_calls
    /\ last_tool_calls' = s.last_tool_calls
    /\ gen' = s.gen
    /\ tasks' = [others EXCEPT ![t].pc = s.pc, ![t].call = s.call,
                               ![t].frame = s.frame, ![t].ret = s.ret,
                               ![t].log = s.log, ![t].turns = s.turns,
                               ![t].nremote = s.nremote]

\* Task t is suspended in a create() call.
InFlight(t) == tasks[t].pc # "idle"

\* asyncio.create_task(agent.request(message, tools, use_tools)): task t runs
\* request up to its await of create(), whatever the other tasks are doing.
TaskRequest(t, message, tls, auto) ==
    /\ variant = "async"
    /\ ~InFlight(t)
    /\ Steps + 1 < MaxSteps
    /\ LET s0 == [TaskSession(t) EXCEPT !.log = <<>>, !.turns = <<>>, !.nremote = 0,
                                        !.ret = [kind |-> "none", value |-> None]]
           others == [u \in Tasks |->
                        IF u = t
                        THEN [tasks[u] EXCEPT !.message = message, !.before = messages,
                                              !.alone = \A v \in Tasks : ~InFlight(v)]
                        ELSE IF InFlight(u) THEN [tasks[u] EXCEPT !.alone = FALSE]
                        ELSE tasks[u]]
       IN  TaskBecomes(t, async_request(s0, message, tls, auto, FALSE), others)
    /\ nops' = nops + 1
    /\ UNCHANGED <<variant, system_prompt, pc, call, frame, ret, entry, log, turns,
                   nremote, ntotal>>

\* The remote answers the create() call of task t, and the task runs on to
\* its next await of create() or to its end.
TaskReply(t, reply) ==
    /\ variant = "async"
    /\ InFlight(t)
    /\ Steps < MaxSteps
    /\ LET s0 == [TaskSession(t) EXCEPT !.turns = Append(@, reply)]
           s == IF tasks[t].pc = "request" THEN async_request_reply(s0, reply)
                ELSE async_use_tools_reply(s0, reply)
       IN  /\ Answerable(s, Steps + 1)
           /\ TaskBecomes(t, s, tasks)
    /\ ntotal' = ntotal + 1
    /\ UNCHANGED <<variant, system_prompt, pc, call, frame, ret, entry, log, turns,
                   nremote, nops>>

\* AsyncAgent with several request tasks on one session.
ConcurrentInit == Init /\ variant = "async"

ConcurrentNext ==
    \E t \in Tasks :
        \/ \E m \in TaskTexts, tls \in ToolLists, auto \in BOOLEAN :
             TaskRequest(t, m, tls, auto)
        \/ \E reply \in TaskReplies : TaskReply(t, reply)

ConcurrentSpec == ConcurrentInit /\ [][ConcurrentNext]_vars

----------------------------------------------------------------------------
(* Vocabulary of the properties. *)

\* The operation last called has ended.
Ended == pc = "idle" /\ ret.kind # "none"

Roles(ms) == [i \in 1..Len(ms) |-> ms[i].role]

Last(seq) == seq[Len(seq)]

\* A remote answer that asks for tools.
HasToolCalls(reply) == ~reply.failed /\ ~NoCalls(reply.tool_calls)

\* A remote answer that asks for none.
IsFinal(reply) == ~reply.failed /\ NoCalls(reply.tool_calls)

\* The operation returned a string that begins with "Error: ".
ReturnedError == ret.kind = "return" /\ ret.value # None /\ ret.value # <<>>
                 /\ Head(ret.value) = "Error: "

\* The name of every call is the name of a tool of tls.
Registered(calls, tls) ==
    /\ ~Falsy(tls)
    /\ \A i \in 1..Len(calls) : FindTool(tls, calls[i].name) # Absent

\* The tool calls of the first n turns, in order.
RECURSIVE Asked(_, _)
Asked(ts, n) == IF n = 0 THEN <<>> ELSE Asked(ts, n - 1) \o ts[n].tool_calls

\* The calls the current operation dispatched, in order.
Dispatched == [i \in 1..Len(log) |-> log[i].call]

\* assistant(tool_calls=[c1]), tool(c1), ..., assistant(tool_calls=[cn]), tool(cn)
Pairs(calls, results) ==
    [i \in 1..(2 * Len(calls)) |->
        LET k == (i + 1) \div 2
        IN  IF i % 2 = 1
            THEN Message("assistant", <<>>, <<calls[k]>>, Absent, Absent)
            ELSE Message("tool", results[k], <<>>, calls[k].id, calls[k].name)]

\* Every assistant message that carries tool calls is followed at once by one
\* tool message per call, ids matching, and by no further tool message.
WellPaired(ms) ==
    \A i \in 1..Len(ms) :
        (ms[i].role = "assistant" /\ ~NoCalls(ms[i].tool_calls)) =>
            LET n == Len(ms[i].tool_calls)
            IN  /\ i + n <= Len(ms)
                /\ \A j \in 1..n :
                      /\ ms[i + j].role = "tool"
                      /\ ms[i + j].tool_call_id = ms[i].tool_calls[j].id
                /\ (i + n + 1 <= Len(ms) => ms[i + n + 1].role # "tool")

\* a is b's beginning.
IsPrefix(a, b) == Len(a) <= Len(b) /\ SubSeq(b, 1, Len(a)) = a

\* The fragments of a response stream: the delta.content that are not None,
\* in the order of the chunks.
Fragments(chunks) == SelectSeq(chunks, LAMBDA c : c # NullContent)

----------------------------------------------------------------------------
(* The claims. *)

\* The one-tool round trip: a fresh synchronous session with a system prompt,
\* request with tools=[lookup] and automatic execution, a first answer with
\* one call to lookup and no text, a second answer "done".
RoundTrip ==
    /\ variant = "sync" /\ Ended /\ nops = 1 /\ ~Falsy(system_prompt)
    /\ entry.op = "request" /\ entry.auto /\ ~entry.stream
    /\ entry.tools = <<"lookup">>
    /\ turns = << Answer(None, <<ToolCall("call_1", "lookup", GoodArgs)>>),
                  Answer(<<"done">>, <<>>) >>

\* C1: after the one-tool round trip the history is exactly five messages:
\* system, user, assistant carrying the tool call, tool carrying lookup's
\* result, assistant carrying "done".
C1_RoundTripHistory ==
    RoundTrip =>
        /\ Len(messages) = 5
        /\ Roles(messages) = <<"system", "user", "assistant", "tool", "assistant">>
        /\ messages[3].tool_calls = turns[1].tool_calls
        /\ messages[4].content = <<"result-", "a">>
        /\ messages[5].content = <<"done">>

\* request with automatic execution whose first answer carries text and one
\* call to a registered tool, and whose follow-up answer carries content and
\* no tool call.
TextAndCall ==
    /\ variant = "sync" /\ Ended
    /\ entry.op = "request" /\ entry.auto /\ ~entry.stream
    /\ Len(turns) = 2
    /\ HasToolCalls(turns[1]) /\ Len(turns[1].tool_calls) = 1
    /\ turns[1].content # None /\ strip(turns[1].content) # <<>>
    /\ Registered(turns[1].tool_calls, entry.tools)
    /\ IsFinal(turns[2]) /\ ~Falsy(turns[2].content)

\* C2: when the first answer carries text together with one call to a
\* registered tool and the follow-up answer carries content C and no tool
\* call, request returns exactly C, after exactly two remote calls.
C2_ReturnsFollowUp ==
    TextAndCall =>
        /\ ret = [kind |-> "return", value |-> turns[2].content]
        /\ nremote = 2

\* A non-streaming request of the synchronous Agent with automatic execution,
\* running or ended.
AutoRequest ==
    variant = "sync" /\ entry.op = "request" /\ entry.auto /\ ~entry.stream

\* C3: when the remote answers with tool calls on k >= 1 consecutive turns
\* and then without, request ends after exactly k+1 remote calls, with every
\* batch dispatched exactly once and in order; no remote call follows a turn
\* without tool calls, and the loop stops on a turn with tool calls only by an
\* exception, which request reports as an "Error: " string.
C3_Chain ==
    AutoRequest =>
        /\ \A i \in 1..Len(turns) :
              ~HasToolCalls(turns[i]) => (i = Len(turns) /\ pc = "idle")
        /\ nremote = Len(turns) + (IF pc = "idle" THEN 0 ELSE 1)
        /\ (pc = "idle" /\ turns # <<>> /\ HasToolCalls(Last(turns))) => ReturnedError
        /\ (pc = "idle" /\ turns # <<>> /\ IsFinal(Last(turns))) =>
              /\ nremote = (Len(turns) - 1) + 1
              /\ Dispatched = Asked(turns, Len(turns) - 1)

\* C3's case: two turns with tool calls, then one without.
C3_Witness ==
    /\ AutoRequest /\ pc = "idle" /\ Len(turns) = 3
    /\ HasToolCalls(turns[1]) /\ HasToolCalls(turns[2]) /\ IsFinal(turns[3])
    /\ Len(turns[1].tool_calls) = 2
    /\ Len(log) = Len(turns[1].tool_calls) + Len(turns[2].tool_calls)
    /\ Registered(Dispatched, entry.tools)
    /\ ret = [kind |-> "return", value |-> <<"done">>]

\* C4: in the synchronous Agent, every message list passed to the remote,
\* and the history once no call is pending, has each assistant message that
\* carries tool calls followed at once by one tool message per call.
C4_Pairing ==
    variant = "sync" =>
        /\ pc # "idle" => WellPaired(call.messages)
        /\ (pc = "idle" /\ NoCalls(tool_calls)) => WellPaired(messages)

\* The pending batch the running use_tools call found, and the history it
\* found, as far as the operation's inputs tell them.
FoundPending ==
    /\ frame.tool_calls = IF turns = <<>> THEN entry.tool_calls
                          ELSE Last(turns).tool_calls
    /\ turns = <<>> => frame.before = entry.messages
    /\ (Len(turns) = 1 /\ entry.op = "request") =>
          frame.before = entry.messages \o
                         <<UserMessage(entry.message), AnswerMessage(turns[1])>>

\* C5: when Agent.use_tools(auto_update=True) makes its follow-up call on a
\* pending batch c1..cn, the history is the history it found extended by
\* exactly 2n messages, assistant(tool_calls=[ci]) then tool(ci) for each i in
\* order, the tool message carrying ci's id, ci's tool name and the result of
\* executing ci.
C5_AppendsPairs ==
    (variant = "sync" /\ pc = "use_tools") =>
        /\ FoundPending
        /\ Len(frame.responses) = Len(frame.tool_calls)
        /\ \A i \in 1..Len(frame.tool_calls) :
              frame.responses[i] =
                  sync_execute_tool_call(Session, frame.tool_calls[i]).value
        /\ messages = frame.before \o Pairs(frame.tool_calls, frame.responses)
        /\ Len(messages) = Len(frame.before) + 2 * Len(frame.tool_calls)

\* C5's case: the follow-up call after a batch of two calls to registered tools.
C5_Witness ==
    /\ variant = "sync" /\ pc = "use_tools"
    /\ Len(frame.tool_calls) = 2
    /\ Registered(frame.tool_calls, tools)
    /\ messages[Len(messages)].content = <<"result-", "a">>

\* A non-streaming request without tools, on a session with a system prompt,
\* answered with content and no tool call.
PlainRequest ==
    /\ Ended /\ ~Falsy(system_prompt)
    /\ entry.op = "request" /\ ~entry.stream /\ Falsy(entry.tools)
    /\ Len(turns) = 1 /\ IsFinal(turns[1])

\* C6: a non-streaming request without tools on a session with a system
\* prompt, answered with content C and no tool call, returns exactly C and
\* extends the history by the user message and the assistant answer; a fresh
\* session ends with three messages: system, user, assistant (Agent and
\* AsyncAgent).
C6_PlainAnswer ==
    PlainRequest =>
        /\ ret = [kind |-> "return", value |-> turns[1].content]
        /\ messages = entry.messages \o
                      << UserMessage(entry.message),
                         Message("assistant", turns[1].content, <<>>, Absent, Absent) >>
        /\ nops = 1 =>
              /\ Len(messages) = 3
              /\ Roles(messages) = <<"system", "user", "assistant">>

\* C6's case: the first request of an AsyncAgent session answered "done".
C6_Witness ==
    /\ PlainRequest /\ variant = "async" /\ nops = 1
    /\ turns[1].content = <<"done">>

\* request with automatic execution disabled, answered with tool calls.
ManualRequest ==
    /\ variant = "sync" /\ Ended
    /\ entry.op = "request" /\ ~entry.auto /\ ~entry.stream
    /\ turns # <<>> /\ HasToolCalls(turns[1])

\* C7: Agent.request with automatic execution disabled, answered with tool
\* calls, returns the answer's own content (possibly None), makes exactly one
\* remote call, dispatches no tool call and leaves exactly the answer's tool
\* calls pending.
C7_LeavesPending ==
    ManualRequest =>
        /\ ret = [kind |-> "return", value |-> turns[1].content]
        /\ Len(turns) = 1 /\ nremote = 1
        /\ log = <<>>
        /\ tool_calls = turns[1].tool_calls

\* C7's case: two calls left pending by an answer without text.
C7_Witness ==
    /\ ManualRequest /\ turns[1].content = None
    /\ Len(tool_calls) = 2

\* C8: when a remote call of the synchronous Agent.request fails, the first
\* or a follow-up one, request does not raise: it returns a string that
\* begins with "Error: ", and the request's user message is in the history.
C8_RemoteFailure ==
    (variant = "sync" /\ entry.op = "request" /\ turns # <<>> /\ Last(turns).failed) =>
        /\ pc = "idle"
        /\ ReturnedError
        /\ ret.value = <<"Error: ">> \o Last(turns).err
        /\ Len(messages) > Len(entry.messages)
        /\ messages[Len(entry.messages) + 1] = UserMessage(entry.message)

\* C8's case: the follow-up call after a tool batch fails.
C8_Witness ==
    /\ variant = "sync" /\ entry.op = "request" /\ Ended
    /\ Len(turns) = 2 /\ HasToolCalls(turns[1]) /\ turns[2].failed

\* C9: when a remote call of AsyncAgent.request or AsyncAgent.use_tools
\* fails, the caller gets no exception and no None but a string that begins
\* with "Error: ".
C9_AsyncRemoteFailure ==
    (variant = "async" /\ turns # <<>> /\ Last(turns).failed) =>
        /\ pc = "idle"
        /\ ReturnedError

\* use_tools(auto_update=False) called on a non-empty pending batch of calls
\* to registered tools.
ManualUseTools ==
    /\ variant = "sync" /\ Ended
    /\ entry.op = "use_tools" /\ ~entry.auto
    /\ ~NoCalls(entry.tool_calls)
    /\ Registered(entry.tool_calls, entry.active)

IdleUseTools == entry.op = "use_tools" /\ NoCalls(entry.tool_calls)

\* C11: use_tools called when no tool call is pending (Agent and AsyncAgent,
\* either value of the flag) returns None at once and changes nothing: no
\* tool is run, no remote call is made, and the history, the pending calls,
\* the last-calls snapshot and the active tools are as they were.
C11_NoPendingNoOp ==
    IdleUseTools =>
        /\ pc = "idle"
        /\ ret = [kind |-> "return", value |-> None]
        /\ log = <<>> /\ nremote = 0 /\ turns = <<>>
        /\ messages = entry.messages
        /\ tool_calls = entry.tool_calls
        /\ last_tool_calls = entry.last_tool_calls
        /\ tools = entry.active

\* C11's case: AsyncAgent.use_tools(autoupdate=True) with nothing pending
\* while the snapshot of the last calls is not empty.
C11_Witness ==
    /\ IdleUseTools /\ variant = "async" /\ entry.auto
    /\ ~NoCalls(entry.last_tool_calls)

\* C12: when use_tools returns after having run a non-empty pending batch,
\* here one of calls to registered tools that were all run, nothing is
\* pending any more (Agent and AsyncAgent, either value of the flag).
C12_NothingPendingAtReturn ==
    (/\ entry.op = "use_tools" /\ Ended /\ ret.kind = "return"
     /\ ~NoCalls(entry.tool_calls)
     /\ Registered(entry.tool_calls, entry.active)
     /\ Len(log) >= Len(entry.tool_calls)
     /\ \A i \in 1..Len(entry.tool_calls) : log[i].ran) =>
        ~has_pending_calls(Session)

\* A token of a string.
Contains(str, token) == \E i \in 1..Len(str) : str[i] = token

\* The dispatcher, or use_tools, run on pending calls of which one names a
\* registered tool with an arguments string that is no JSON.
MalformedCall ==
    /\ Ended /\ entry.op \in {"use_tools", "execute_tool_calls"}
    /\ ~Falsy(entry.active)
    /\ \E i \in 1..Len(entry.tool_calls) :
          /\ FindTool(entry.active, entry.tool_calls[i].name) # Absent
          /\ json_loads(entry.tool_calls[i].arguments).raised

\* C13: executing a tool call whose arguments string is no valid JSON, the
\* tool being registered, never raises to the caller of the dispatcher or of
\* use_tools; the dispatcher's result is an error string that contains the
\* tool's name.
C13_MalformedArguments ==
    MalformedCall =>
        /\ ret.kind = "return"
        /\ entry.op = "execute_tool_calls" =>
              \E i \in 1..Len(entry.tool_calls) :
                  /\ json_loads(entry.tool_calls[i].arguments).raised
                  /\ Contains(ret.value, entry.tool_calls[i].name)

\* One pending call, with arguments that decode, to a registered plain
\* function that raises, run by the synchronous dispatcher or by
\* Agent.use_tools(auto_update=False).
RaisingCall ==
    /\ variant = "sync" /\ Ended
    /\ entry.op = "execute_tool_calls" \/ (entry.op = "use_tools" /\ ~entry.auto)
    /\ ~Falsy(entry.active)
    /\ Len(entry.tool_calls) = 1
    /\ ~json_loads(entry.tool_calls[1].arguments).raised
    /\ LET tool == FindTool(entry.active, entry.tool_calls[1].name)
       IN  /\ tool # Absent
           /\ ~IsCoroutineFunction(tool)
           /\ Body(tool, json_loads(entry.tool_calls[1].arguments).value).raised

\* C14: when a registered tool raises an exception with message m while
\* execute_tool_call runs it, the call's result is the string
\* "Error executing <name>: m" and no exception reaches the caller.
C14_ErrorExecuting ==
    RaisingCall =>
        LET c == entry.tool_calls[1]
            m == Body(FindTool(entry.active, c.name), json_loads(c.arguments).value).err
        IN  ret = [kind |-> "return", value |-> <<"Error executing ", c.name, ": ">> \o m]

\* The plain function of tls that call names, run with arguments that decode.
RunsPlain(tls, c) ==
    /\ ~Falsy(tls)
    /\ ~json_loads(c.arguments).raised
    /\ FindTool(tls, c.name) # Absent
    /\ ~IsCoroutineFunction(FindTool(tls, c.name))

\* Agent.use_tools called on a pending batch whose argument strings all
\* decode and in which a call names a registered plain function that raises.
RaisingBatch ==
    /\ variant = "sync" /\ entry.op = "use_tools"
    /\ \A i \in 1..Len(entry.tool_calls) :
          ~json_loads(entry.tool_calls[i].arguments).raised
    /\ \E i \in 1..Len(entry.tool_calls) :
          /\ RunsPlain(entry.active, entry.tool_calls[i])
          /\ Body(FindTool(entry.active, entry.tool_calls[i].name),
                  json_loads(entry.tool_calls[i].arguments).value).raised

\* C15: a tool that raises while one pending call is executed does not stop
\* the batch: every call of the batch is dispatched, in order, each
\* registered plain function being run, and with auto-update the follow-up
\* remote call is made; without it use_tools returns.
C15_RaisingToolGoesOn ==
    RaisingBatch =>
        /\ Len(log) >= Len(entry.tool_calls)
        /\ \A i \in 1..Len(entry.tool_calls) :
              /\ log[i].call = entry.tool_calls[i]
              /\ log[i].ran = RunsPlain(entry.active, entry.tool_calls[i])
        /\ entry.auto => nremote >= 1
        /\ ~entry.auto => ret.kind = "return" /\ nremote = 0

\* C15's case: the batch (boom, lookup) with auto-update: boom raised, lookup
\* was run after it and the follow-up call is in flight.
C15_Witness ==
    /\ RaisingBatch /\ entry.auto /\ pc = "use_tools"
    /\ Len(entry.tool_calls) = 2
    /\ entry.tool_calls[1].name = "boom" /\ entry.tool_calls[2].name = "lookup"
    /\ log[1].ran /\ log[2].ran
    /\ Last(messages).content = <<"result-", "a">>

\* Agent.use_tools has ended on a pending batch whose argument strings all
\* decode and in which a call names no tool of the active set, the set being
\* possibly empty or absent; no remote call failed and no answer asked for
\* further tools.
NotFoundCall ==
    /\ variant = "sync" /\ Ended /\ entry.op = "use_tools"
    /\ ~NoCalls(entry.tool_calls)
    /\ \A i \in 1..Len(entry.tool_calls) :
          ~json_loads(entry.tool_calls[i].arguments).raised
    /\ \E i \in 1..Len(entry.tool_calls) :
          Falsy(entry.active) \/ FindTool(entry.active, entry.tool_calls[i].name) = Absent
    /\ \A i \in 1..Len(turns) : IsFinal(turns[i])

\* C16: a pending call, with arguments that decode, whose name matches no
\* tool of the active set (the set may be empty or absent) never aborts
\* Agent.use_tools, with auto-update on or off: it completes without raising,
\* every call of the batch having been dispatched.
C16_NotFoundGoesOn ==
    NotFoundCall =>
        /\ ret.kind = "return"
        /\ Dispatched = entry.tool_calls

\* The handler's execute_tool_calls has ended on pending calls, all with
\* arguments that decode, of which one names a registered tool of the other
\* calling convention: a coroutine function in ToolsHandler, a plain function
\* in AsyncToolsHandler.
Mismatch ==
    /\ Ended /\ entry.op = "execute_tool_calls"
    /\ ~Falsy(entry.active)
    /\ \A i \in 1..Len(entry.tool_calls) :
          ~json_loads(entry.tool_calls[i].arguments).raised
    /\ \E i \in 1..Len(entry.tool_calls) :
          LET tool == FindTool(entry.active, entry.tool_calls[i].name)
          IN  tool # Absent /\ (IsCoroutineFunction(tool) <=> variant = "sync")

\* C17: a calling-convention mismatch is not swallowed:
\* ToolsHandler.execute_tool_calls with a pending call that names a coroutine
\* tool, and AsyncToolsHandler.execute_tool_calls with a pending call that
\* names a plain function, raise a TypeError to the caller.
C17_ConventionMismatch ==
    Mismatch => ret.kind = "raise"

\* AsyncAgent.request with use_tools=True, the first operation of a session
\* with a system prompt, whose first answer carries one call, with arguments
\* that decode, to a registered coroutine tool.
AsyncFirstTurn ==
    /\ variant = "async" /\ nops = 1 /\ ~Falsy(system_prompt)
    /\ entry.op = "request" /\ entry.auto /\ ~entry.stream
    /\ turns # <<>> /\ HasToolCalls(turns[1]) /\ Len(turns[1].tool_calls) = 1
    /\ Registered(turns[1].tool_calls, entry.tools)
    /\ IsCoroutineFunction(FindTool(entry.tools, turns[1].tool_calls[1].name))
    /\ ~json_loads(turns[1].tool_calls[1].arguments).raised

\* C18: AsyncAgent.request with use_tools=True on a fresh session, answered
\* first with one call to a registered coroutine tool and then with content C
\* and no tool call, returns exactly C: after the first answer the follow-up
\* call is made, and its content is what request returns.
C18_AsyncReturnsFollowUp ==
    AsyncFirstTurn =>
        /\ Len(turns) = 1 => (pc = "use_tools" /\ nremote = 2)
        /\ (Len(turns) = 2 /\ IsFinal(turns[2])) =>
              ret = [kind |-> "return", value |-> turns[2].content]

\* C19: AsyncAgent.use_tools(autoupdate=True) goes on like the synchronous
\* loop: it does not return on a follow-up answer that carries tool calls;
\* the answer it returns on carries none, and its content is the value
\* returned.
C19_AsyncLoop ==
    (/\ variant = "async" /\ entry.op = "use_tools" /\ entry.auto
     /\ Ended /\ ret.kind = "return"
     /\ turns # <<>> /\ ~Last(turns).failed) =>
        /\ IsFinal(Last(turns))
        /\ ret.value = Last(turns).content

\* C20: set_tool_calls(c) makes the last-calls snapshot equal to the pending
\* list as it was just before the call, executed or not, and the pending
\* list equal to c, empty when c is None (ToolsHandler and
\* AsyncToolsHandler); the history and the active tools are left alone.
C20_SetToolCalls ==
    entry.op = "set_tool_calls" =>
        /\ get_last_tool_calls(Session) = entry.tool_calls
        /\ get_pending_calls(Session) =
              (IF entry.calls.none THEN <<>> ELSE entry.calls.calls)
        /\ messages = entry.messages
        /\ tools = entry.active

\* C20's case: set_tool_calls(None) right after a set_tool_calls of two
\* calls that were never executed.
C20_Witness ==
    /\ entry.op = "set_tool_calls" /\ nops = 2
    /\ entry.calls.none
    /\ Len(last_tool_calls) = 2 /\ NoCalls(tool_calls)

\* Agent.use_tools has returned after running a non-empty pending batch, no
\* follow-up answer having asked for further tools.
ExecutedBatch ==
    /\ variant = "sync" /\ entry.op = "use_tools"
    /\ Ended /\ ret.kind = "return"
    /\ ~NoCalls(entry.tool_calls)
    /\ Dispatched = entry.tool_calls
    /\ \A i \in 1..Len(turns) : IsFinal(turns[i])

\* C21: once Agent.use_tools has executed a pending batch, that batch is in
\* the last-executed slot: right after use_tools returns,
\* get_last_tool_calls() / check_last_request() is exactly the batch that was
\* just executed.
C21_MovedToLast ==
    ExecutedBatch => check_last_request(Session) = entry.tool_calls

\* A non-streaming request with automatic execution disabled has returned on
\* an answer that carries tool calls.
ManualAnswer ==
    /\ Ended /\ entry.op = "request" /\ ~entry.auto /\ ~entry.stream
    /\ Len(turns) = 1 /\ HasToolCalls(turns[1])

\* C22: after a non-streaming request with automatic execution disabled
\* whose answer carries the tool calls T, check_last_request() returns T
\* (Agent and AsyncAgent).
C22_LastRequest ==
    ManualAnswer => check_last_request(Session) = turns[1].tool_calls

\* C23: has_pending_calls() is true exactly when the pending list is not
\* empty: false on a new handler, true after set_tool_calls with a non-empty
\* list, false after clearing; and clear_tool_calls / clear_pending_calls
\* empties the pending list and leaves the last-calls snapshot and the active
\* tools (and the history) as they were.
C23_PendingFlag ==
    /\ has_pending_calls(Session) <=> Len(get_pending_calls(Session)) > 0
    /\ nops = 0 => ~has_pending_calls(Session)
    /\ (entry.op = "set_tool_calls" /\ OrEmpty(entry.calls) # <<>>) =>
          has_pending_calls(Session)
    /\ entry.op = "clear_tool_calls" =>
          /\ ~has_pending_calls(Session)
          /\ get_pending_calls(Session) = <<>>
          /\ last_tool_calls = entry.last_tool_calls
          /\ tools = entry.active
          /\ messages = entry.messages

\* C23's case: clearing a pending list that is not empty while the snapshot
\* of the last calls is not empty and tools are active.
C23_Witness ==
    /\ entry.op = "clear_tool_calls"
    /\ ~NoCalls(entry.tool_calls) /\ ~NoCalls(last_tool_calls) /\ ~Falsy(tools)
    /\ NoCalls(tool_calls)

\* The declared parameters that are no catch-all, and of these the ones
\* without default, by name and in declaration order.
Declared(params) == SelectSeq(params, LAMBDA q : q.kind \notin Variadic)

WithoutDefault(params) ==
    LET ps == SelectSeq(Declared(params), LAMBDA q : q.default = Empty)
    IN  [i \in 1..Len(ps) |-> ps[i].name]

\* C24: the "required" list of create_tool_def's output is exactly the
\* declared non-variadic parameters without default value, in declaration
\* order, and the "required" key is absent when there is none.
C24_Required ==
    entry.op = "create_tool_def" =>
        LET req == WithoutDefault(entry.callable.params)
            parameters == ret.value.parameters
        IN  /\ ret.kind = "return"
            /\ "required" \in parameters.keys <=> req # <<>>
            /\ req # <<>> => parameters.required = req

\* C24's case: def tool(a, b="default", *, c): the first and the third
\* parameter are required.
C24_Witness ==
    /\ entry.op = "create_tool_def"
    /\ Len(entry.callable.params) = 3
    /\ entry.callable.params[2].default # Empty
    /\ ret.value.parameters.required = <<"a", "c">>
    /\ "required" \in ret.value.parameters.keys

\* C25: the "properties" of create_tool_def's output has one entry per
\* declared parameter that is neither *args nor **kwargs, in declaration
\* order, each typed "string"; a callable with catch-all parameters only, or
\* with none, yields empty properties and no "required" key; and the
\* definition is determined by the callable alone, the same in ToolsHandler
\* and AsyncToolsHandler.
C25_Properties ==
    entry.op = "create_tool_def" =>
        LET decl == Declared(entry.callable.params)
            req == WithoutDefault(entry.callable.params)
        IN  /\ ret.kind = "return"
            /\ ret.value.parameters.properties =
                  [i \in 1..Len(decl) |-> [name |-> decl[i].name, type |-> "string"]]
            /\ decl = <<>> =>
                  /\ ret.value.parameters.properties = <<>>
                  /\ "required" \notin ret.value.parameters.keys
            /\ ret.value =
                  [type |-> "function",
                   name |-> entry.callable.name,
                   description |-> IF entry.callable.doc = None THEN <<>>
                                   ELSE entry.callable.doc,
                   parameters |->
                      [type |-> "object",
                       keys |-> IF req = <<>> THEN {"type", "properties"}
                                ELSE {"type", "properties", "required"},
                       properties |-> ret.value.parameters.properties,
                       required |-> req]]

\* C25's case: AsyncToolsHandler, def tool(a, *b, c): two properties, the
\* catch-all between them left out.
C25_Witness ==
    /\ entry.op = "create_tool_def" /\ variant = "async"
    /\ Len(entry.callable.params) = 3
    /\ entry.callable.params[2].kind = "VAR_POSITIONAL"
    /\ Len(ret.value.parameters.properties) = 2
    /\ ret.value.parameters.properties[2].name = "c"

\* C26: the remote call of request carries tool definitions exactly when a
\* non-empty tool list was supplied to that request, one definition per
\* supplied tool in the supplied order; without tools the tools argument is
\* not passed at all; and the follow-up call of use_tools never carries tool
\* definitions.
C26_ToolsArgument ==
    /\ (pc = "request" /\ ~Falsy(entry.tools)) =>
          call.tools =
            Given([i \in 1..Len(entry.tools) |-> create_tool_def(AsCallable(entry.tools[i]))])
    /\ (pc = "request" /\ Falsy(entry.tools)) => call.tools = NotGiven
    /\ pc = "use_tools" => call.tools = NotGiven

\* C27: every request replaces the active tools by the tools supplied to it:
\* once a request was made without tools, in Agent and in AsyncAgent, no tool
\* is active, so that a tool offered before resolves no more.
C27_ToolsReplaced ==
    (entry.op = "request" /\ Falsy(entry.tools)) =>
        /\ Falsy(tools)
        /\ \A t \in Tools : Falsy(tools) \/ FindTool(tools, Name(t)) = Absent

\* C28: a newly constructed session (Agent and AsyncAgent) has for history
\* the single system message when a system prompt is given and nothing
\* otherwise, no pending call, an empty last-calls snapshot and no active
\* tools.
C28_NewSession ==
    (nops = 0 /\ ntotal = 0) =>
        /\ ~Falsy(system_prompt) =>
              messages = <<[role |-> "system", content |-> system_prompt,
                            tool_calls |-> <<>>, tool_call_id |-> Absent, name |-> Absent]>>
        /\ Falsy(system_prompt) => messages = <<>>
        /\ get_pending_calls(Session) = <<>> /\ ~has_pending_calls(Session)
        /\ get_last_tool_calls(Session) = <<>>
        /\ tools = None

\* C28's case: a new AsyncAgent with a system prompt.
C28_Witness ==
    /\ nops = 0 /\ variant = "async" /\ ~Falsy(system_prompt)
    /\ Len(messages) = 1 /\ messages[1].role = "system"

\* AsyncAgent.use_tools(autoupdate=False) called with one pending call, with
\* arguments that decode, to a registered coroutine tool.
AsyncManualUseTools ==
    /\ variant = "async" /\ entry.op = "use_tools" /\ ~entry.auto
    /\ Len(entry.tool_calls) = 1
    /\ Registered(entry.tool_calls, entry.active)
    /\ IsCoroutineFunction(FindTool(entry.active, entry.tool_calls[1].name))
    /\ ~json_loads(entry.tool_calls[1].arguments).raised

\* C29: AsyncAgent.use_tools with auto-update disabled and one pending call
\* to a registered async tool runs the tool, then returns None, without a
\* remote call and without appending anything to the history.
C29_AsyncManualUseTools ==
    AsyncManualUseTools =>
        /\ pc = "idle"
        /\ ret = [kind |-> "return", value |-> None]
        /\ log = <<[call |-> entry.tool_calls[1], ran |-> TRUE]>>
        /\ nremote = 0 /\ turns = <<>>
        /\ messages = entry.messages

\* C29's case: the pending call to lookup left by a request, run by
\* use_tools(autoupdate=False).
C29_Witness ==
    /\ AsyncManualUseTools
    /\ entry.tool_calls[1].name = "lookup"
    /\ Len(messages) >= 2
    /\ log # <<>> /\ log[1].ran

\* The handler's execute_tool_calls has returned after running every call of
\* a non-empty pending list, all of registered tools.
ExecutedPending ==
    /\ Ended /\ entry.op = "execute_tool_calls" /\ ret.kind = "return"
    /\ ~NoCalls(entry.tool_calls)
    /\ Registered(entry.tool_calls, entry.active)
    /\ Dispatched = entry.tool_calls
    /\ \A i \in 1..Len(log) : log[i].ran

\* C30: after ToolsHandler.execute_tool_calls, and
\* AsyncToolsHandler.execute_tool_calls, has executed the pending calls, the
\* handler's pending list is empty.
C30_ExecutedCleared ==
    ExecutedPending => get_pending_calls(Session) = <<>>

\* C31: after request has processed a non-streaming model turn (Agent and
\* AsyncAgent), the pending calls are those of that turn: when the answer
\* carries no tool calls nothing is pending, whatever an earlier turn left,
\* and in manual mode the answer's own calls are pending.
C31_PendingReflectsTurn ==
    (/\ Ended /\ entry.op = "request" /\ ~entry.stream
     /\ Len(turns) = 1 /\ ~turns[1].failed
     /\ (IsFinal(turns[1]) \/ ~entry.auto)) =>
        get_pending_calls(Session) = turns[1].tool_calls

\* C32: every remote call is passed exactly the session's history as it is
\* when the call is made, message for message: the call of request and the
\* follow-up call of use_tools, in Agent and in AsyncAgent, with or without
\* a system prompt.
C32_FullHistory ==
    pc \in {"request", "use_tools"} => call.messages = messages

\* C33: the history only grows: whatever step the session takes (request,
\* use_tools, tool_exec, a remote answer or failure, a fragment pulled from a
\* returned stream, a stream closed), the history before the step is the
\* beginning of the history after it.
C33_AppendOnly == [][IsPrefix(messages, messages')]_vars

\* C33's case: a tool_exec that added its result to a history of three
\* messages or more.
C33_Witness ==
    /\ Ended /\ entry.op = "tool_exec" /\ ret.kind = "return"
    /\ Len(entry.messages) >= 3
    /\ messages = Append(entry.messages, Last(messages))
    /\ Last(messages).role = "assistant"

\* C34: a streaming request returns its generator with only the user message
\* appended and with the pending calls and the last-calls snapshot untouched;
\* pulling from the generator never touches them either; what it has yielded
\* is the non-null fragments of the chunks read so far, in order, and all of
\* them when it ends; a pull that yields leaves the history as it was, and in
\* Agent so does the pull that ends the stream.
C34_Streaming ==
    /\ (entry.op = "request" /\ entry.stream /\ pc = "idle" /\ ret.kind = "stream") =>
          /\ messages = Append(entry.messages, UserMessage(entry.message))
          /\ tool_calls = entry.tool_calls
          /\ last_tool_calls = entry.last_tool_calls
          /\ gen.state = "suspended" /\ gen.yielded = <<>>
    /\ entry.op = "next" =>
          /\ tool_calls = entry.tool_calls
          /\ last_tool_calls = entry.last_tool_calls
          /\ gen.yielded = Fragments(SubSeq(gen.chunks, 1, gen.i - 1))
          /\ ret.kind = "yield" =>
                /\ messages = entry.messages
                /\ ret.value = <<Last(gen.yielded)>>
          /\ ret.kind = "stop" => gen.yielded = Fragments(gen.chunks)
          /\ variant = "sync" => messages = entry.messages

\* C34's case: a stream of the synchronous Agent consumed to its end while
\* calls of an earlier turn are pending.
C34_Witness ==
    /\ variant = "sync" /\ entry.op = "next" /\ ret.kind = "stop"
    /\ gen.chunks = <<"to", NullContent, "ken">>
    /\ gen.yielded = <<"to", "ken">>
    /\ ~NoCalls(tool_calls)
    /\ Last(messages).role = "user"

\* C35: in AsyncAgent the pull that ends the stream appends one assistant
\* message, whose content is the fragments yielded, concatenated in order;
\* a pull that yields a fragment and the closing of the stream append
\* nothing, and a stream that was closed is never recorded.
C35_RecordedOnCompletion ==
    variant = "async" =>
        /\ (entry.op = "next" /\ ret.kind = "stop") =>
              /\ messages = Append(entry.messages,
                                   [role |-> "assistant", content |-> gen.yielded,
                                    tool_calls |-> <<>>, tool_call_id |-> Absent,
                                    name |-> Absent])
              /\ gen.state = "finished"
        /\ (entry.op = "next" /\ ret.kind = "yield") =>
              messages = entry.messages /\ gen.state = "suspended"
        /\ entry.op = "close" => messages = entry.messages /\ gen.state = "closed"

\* C35's case: a stream of three chunks, one without content, consumed to
\* its end.
C35_Witness ==
    /\ variant = "async" /\ entry.op = "next" /\ ret.kind = "stop"
    /\ Last(messages).role = "assistant"
    /\ Last(messages).content = <<"to", "ken">>

\* The result of each call of a batch, run with the tools tls, in the order
\* of the batch.
Results(calls, tls) ==
    [i \in 1..Len(calls) |->
        IF variant = "sync"
        THEN sync_execute_tool_call([tools |-> tls], calls[i]).value
        ELSE async_execute_tool_call([tools |-> tls], calls[i]).value]

\* No arguments string of the batch fails to decode where it is decoded.
Decodes(calls, tls) ==
    Falsy(tls) \/ \A i \in 1..Len(calls) : ~json_loads(calls[i].arguments).raised

\* C36: use_tools and execute_tool_calls dispatch the pending calls one
\* after another in arrival order, none twice and none before an earlier one:
\* what was dispatched is a beginning of the pending list (followed, in
\* Agent.use_tools, by the batches of the follow-up answers), all of it unless
\* an arguments string failed to decode, and the results are collected in
\* that order.
C36_InOrder ==
    /\ (entry.op = "execute_tool_calls" /\ Ended) =>
          /\ IsPrefix(Dispatched, entry.tool_calls)
          /\ Decodes(entry.tool_calls, entry.active) =>
                /\ Dispatched = entry.tool_calls
                /\ ret.kind = "return"
                /\ ~Falsy(entry.active) /\ ~NoCalls(entry.tool_calls) =>
                      ret.value = JoinFrom("\n", Results(entry.tool_calls, entry.active), 1)
    /\ entry.op = "use_tools" =>
          /\ IsPrefix(Dispatched, entry.tool_calls \o Asked(turns, Len(turns)))
          /\ Decodes(entry.tool_calls, entry.active) =>
                IsPrefix(entry.tool_calls, Dispatched)
          /\ (/\ variant = "sync" /\ ~entry.auto /\ Ended /\ ret.kind = "return"
              /\ ~Falsy(entry.active) /\ ~NoCalls(entry.tool_calls)) =>
                ret.value = JoinFrom("\n", Results(entry.tool_calls, entry.active), 1)

\* C36's case: two pending calls with different results, run by
\* execute_tool_calls of the asynchronous handler.
C36_Witness ==
    /\ variant = "async" /\ Ended /\ entry.op = "execute_tool_calls"
    /\ Len(entry.tool_calls) = 2 /\ Len(log) = 2
    /\ log[1].ran /\ log[2].ran
    /\ ret.value = <<"None", "\n", "result-", "a">>

\* C37: a request task that ran alone, from its call to its return, with a
\* non-streaming answer without tool calls, has left its user message
\* immediately followed by its answer; nothing keeps a second task from
\* starting while the first awaits the remote model.
C37_OneAtATime ==
    \A t \in Tasks :
        (/\ ~InFlight(t) /\ tasks[t].ret.kind = "return" /\ tasks[t].alone
         /\ Len(tasks[t].turns) = 1 /\ IsFinal(tasks[t].turns[1])) =>
            LET n == Len(tasks[t].before)
            IN  /\ Len(messages) >= n + 2
                /\ messages[n + 1] = UserMessage(tasks[t].message)
                /\ messages[n + 2] = AnswerMessage(tasks[t].turns[1])

\* C37's case: two tasks in flight on one session, their user messages next
\* to each other in the history, and the remote call of the second carrying
\* the user message of the first.
C37_Witness ==
    \E t, u \in Tasks :
        /\ t # u /\ InFlight(t) /\ InFlight(u)
        /\ tasks[t].message # tasks[u].message
        /\ tasks[u].pc = "request"
        /\ LET n == Len(tasks[t].before)
           IN  /\ Len(messages) = n + 2
               /\ messages[n + 1] = UserMessage(tasks[t].message)
               /\ messages[n + 2] = UserMessage(tasks[u].message)
               /\ tasks[u].call.messages[n + 1] = UserMessage(tasks[t].message)

\* C38: execute_tool_calls returns None when nothing is pending, None too
\* when no pending call produced a result (no active tools), and otherwise
\* the results that are not None joined by newlines in arrival order.
C38_JoinedOrNone ==
    (entry.op = "execute_tool_calls" /\ Ended /\ ret.kind = "return") =>
        IF NoCalls(entry.tool_calls) \/ Falsy(entry.active)
        THEN ret.value = None
        ELSE ret.value = JoinFrom("\n", Results(entry.tool_calls, entry.active), 1)

\* C39: a tool_exec that follows a prepare_call which found the tool of a
\* pending call whose arguments decode, runs that call and no other, by a
\* tool of that call's name.
C39_ManualFlow ==
    (/\ entry.op = "tool_exec" /\ Ended /\ entry.calls # NoneCalls
     /\ ~json_loads(entry.calls.calls[1].arguments).raised) =>
        /\ Len(log) = 1
        /\ log[1].call = entry.calls.calls[1]
        /\ Name(log[1].tool) = entry.calls.calls[1].name

\* C40: when Agent.request with automatic execution, called with nothing
\* pending, has returned, normally or with an "Error: " string, nothing is
\* pending.
C40_NothingPendingAfterAuto ==
    (/\ variant = "sync" /\ Ended /\ entry.op = "request"
     /\ entry.auto /\ ~entry.stream /\ NoCalls(entry.tool_calls)) =>
        ~has_pending_calls(Session)

====
